---- MODULE Spec2Model ----
(***************************************************************************)
(* Model of src/src/derivWebsocket.jsx: the Deriv WebSocket client          *)
(* (createDerivSocket, setupSocketHandlers, startPingInterval,              *)
(* requestTickHistory, closeSocket) and the GoldenRatioAnalyzer component   *)
(* that drives it (the connection effect, handleMessage, extractLastDigit,  *)
(* analyzeData).                                                            *)
(*                                                                          *)
(* JavaScript arrays are zero-based, TLA+ sequences one-based: digits[i]    *)
(* of the source is digits[i + 1] here.                                     *)
(***************************************************************************)
EXTENDS Integers, Sequences, FiniteSets, TLC

\* ------------------------------------------------------------------ bounds

\* How many sockets the connection effect may create in one run (each mount
\* of the effect creates one).
MaxSockets == 2

\* Longest price list of a history reply in the history specification.
MaxHistory == 2

\* Longest digit sequence handed to analyzeData in the analyzer specification.
MaxDigits == 3

\* Largest ordinary pip_size a history reply carries.
MaxPipSize == 4

\* ------------------------------------------------------- program constants

\* pipSize = 4 of extractLastDigit and of `data.pip_size || 4`.
DefaultPipSize == 4

\* Largest n for which Math.pow(10, n) is a finite double; 10^309 is Infinity.
MaxExp10 == 308

\* The result of Math.floor(NaN): a digit that is no digit.  Kept apart from
\* 0..9; every operation on digits tests for it before doing arithmetic.
NaN == -1

\* ---------------------------------------------------------- JS numbers
\* A number of the digit pipeline is a decimal m * 10^e, NaN or Infinity.
\* Arithmetic on finite values is exact decimal arithmetic: the binary
\* rounding of a double inside its range is not modelled, its overflow to
\* Infinity is.

Num(m, e) == [k |-> "finite", m |-> m, e |-> e]

NaNValue == [k |-> "NaN", m |-> 0, e |-> 0]

InfinityValue == [k |-> "Infinity", m |-> 0, e |-> 0]

RECURSIVE Pow10(_)
Pow10(n) == IF n <= 0 THEN 1 ELSE 10 * Pow10(n - 1)

RECURSIVE NumDigits(_)
NumDigits(m) == IF m < 10 THEN 1 ELSE 1 + NumDigits(m \div 10)

\* Whether m * 10^e lies above Number.MAX_VALUE (1.797...e308).
Overflows(m, e) ==
    /\ m > 0
    /\ LET lead == e + NumDigits(m) - 1
       IN  \/ lead > MaxExp10
           \/ lead = MaxExp10 /\ (m * 100) \div Pow10(NumDigits(m) - 1) >= 180

\* Math.pow(10, n) for an integer n >= 0.
MathPow10(n) == IF n > MaxExp10 THEN InfinityValue ELSE Num(1, n)

\* a * b for non-negative a, b.
Times(a, b) ==
    IF a.k = "NaN" \/ b.k = "NaN" THEN NaNValue
    ELSE IF a.k = "Infinity" \/ b.k = "Infinity"
         THEN IF (a.k = "finite" /\ a.m = 0) \/ (b.k = "finite" /\ b.m = 0)
              THEN NaNValue
              ELSE InfinityValue
         ELSE IF Overflows(a.m * b.m, a.e + b.e)
              THEN InfinityValue
              ELSE Num(a.m * b.m, a.e + b.e)

\* x % 10 for non-negative x: NaN for NaN and Infinity.
Mod10(x) ==
    IF x.k # "finite" THEN NaNValue
    ELSE IF x.e >= 1 THEN Num(0, 0)
         ELSE Num(x.m % Pow10(1 - x.e), x.e)

\* Math.floor(x) of a remainder x (finite below 10, or NaN): an integer, or NaN.
MathFloor(x) ==
    IF x.k # "finite" THEN NaN
    ELSE IF x.e >= 0 THEN x.m * Pow10(x.e)
         ELSE x.m \div Pow10(0 - x.e)

\* extractLastDigit without its `% 10`: Math.floor(price * Math.pow(10, pipSize)).
extractLastDigitNoMod(price, pipSize) ==
    MathFloor(Times(price, MathPow10(pipSize)))

\* Math.floor((price * Math.pow(10, pipSize)) % 10)
extractLastDigit(price, pipSize) ==
    MathFloor(Mod10(Times(price, MathPow10(pipSize))))

\* ------------------------------------------------------------ fractions
\* The quotient of two integers as JavaScript computes it, kept exact:
\* num / den in lowest terms, 0/0 for NaN, 1/0 for Infinity.  -0 is 0.

RECURSIVE GCD(_, _)
GCD(a, b) == IF b = 0 THEN a ELSE GCD(b, a % b)

Abs(a) == IF a < 0 THEN 0 - a ELSE a

Div(a, b) ==
    IF b = 0
    THEN IF a = 0 THEN [num |-> 0, den |-> 0]
         ELSE [num |-> IF a < 0 THEN 0 - 1 ELSE 1, den |-> 0]
    ELSE LET g == GCD(Abs(a), Abs(b))
             s == IF (a < 0) # (b < 0) THEN 0 - 1 ELSE 1
         IN  [num |-> s * (Abs(a) \div g), den |-> Abs(b) \div g]

NaNFraction == [num |-> 0, den |-> 0]

\* -------------------------------------------------------------- doubles
\* The arithmetic of the correlation score: IEEE 754 binary64, rounding to
\* nearest, ties to even.  A double is sign * (hi * 2^28 + lo) * 2^exp.  Its
\* 53-bit significand fills the upper 53 of 56 bits, so 2^27 <= hi < 2^28
\* and the low three bits of lo are 0; zero has hi = lo = 0.  An operation
\* computes its exact result down to three bits below the significand, the
\* lowest of them sticky (set when anything nonzero lies further below), and
\* rounds that.  The exponents met here stay far inside the double range:
\* there are no subnormals, infinities or NaNs.

\* 2^28, 2^27 and 2^14
Limb == 268435456

HalfLimb == Limb \div 2

Chunk == 16384

Double(sign, hi, lo, exp) == [sign |-> sign, hi |-> hi, lo |-> lo, exp |-> exp]

Zero == Double(1, 0, 0, 0)

IsZero(x) == x.hi = 0 /\ x.lo = 0

\* lo with its lowest bit set when bits were lost below it.
Sticky(lo, lost) == IF lost /\ lo % 2 = 0 THEN lo + 1 ELSE lo

\* (hi * 2^28 + lo) * 2^d for d < 28, the product below 2^56.
ShiftLeft(hi, lo, d) ==
    [hi |-> hi * 2^d + lo \div 2^(28 - d), lo |-> (lo % 2^(28 - d)) * 2^d]

\* The position of the highest set bit of n, 0 < n < 2^28.
RECURSIVE Log2(_)
Log2(n) ==
    IF n >= Chunk THEN 14 + Log2(n \div Chunk)
    ELSE IF n >= 128 THEN 7 + Log2(n \div 128)
    ELSE IF n >= 8 THEN 3 + Log2(n \div 8)
    ELSE IF n >= 2 THEN 1 + Log2(n \div 2)
    ELSE 0

NormalizeLeft(sign, s, exp) == Double(sign, s.hi, s.lo, exp)

\* The same value with 2^27 <= hi < 2^28.
RECURSIVE Normalize(_, _, _, _)
Normalize(sign, hi, lo, exp) ==
    IF hi = 0 /\ lo = 0 THEN Zero
    ELSE IF hi = 0 THEN Normalize(sign, lo, 0, exp - 28)
    ELSE IF hi >= Limb
    THEN Normalize(sign, hi \div 2,
                   Sticky((hi % 2) * HalfLimb + lo \div 2, lo % 2 = 1), exp + 1)
    ELSE NormalizeLeft(sign, ShiftLeft(hi, lo, 27 - Log2(hi)), exp - (27 - Log2(hi)))

\* Round the three low bits away: up when they are above one half, or equal
\* to one half with an odd significand.
RoundUp(x) ==
    x.lo % 8 > 4 \/ (x.lo % 8 = 4 /\ (x.lo \div 8) % 2 = 1)

Round(x) ==
    IF ~RoundUp(x) THEN [x EXCEPT !.lo = @ - (@ % 8)]
    ELSE IF x.lo - (x.lo % 8) + 8 < Limb THEN [x EXCEPT !.lo = @ - (@ % 8) + 8]
    ELSE IF x.hi + 1 < Limb THEN [x EXCEPT !.hi = @ + 1, !.lo = 0]
    ELSE Double(x.sign, HalfLimb, 0, x.exp + 1)

\* The double nearest to sign * (hi * 2^28 + lo) * 2^exp.
Fl(sign, hi, lo, exp) == Round(Normalize(sign, hi, lo, exp))

\* An integer 0 <= n < 2^28 as a double.
FromInt(n) == Fl(1, 0, n, 0)

Neg(x) == IF IsZero(x) THEN x ELSE [x EXCEPT !.sign = 0 - @]

\* |x| < |y|
MagLess(x, y) ==
    IF IsZero(y) THEN FALSE
    ELSE IF IsZero(x) THEN TRUE
    ELSE IF x.exp # y.exp THEN x.exp < y.exp
    ELSE IF x.hi # y.hi THEN x.hi < y.hi
    ELSE x.lo < y.lo

\* x < y
Less(x, y) ==
    IF x.sign # y.sign THEN x.sign < y.sign
    ELSE IF x.sign = 1 THEN MagLess(x, y) ELSE MagLess(y, x)

\* (hi * 2^28 + lo) / 2^d, of a nonzero value, truncated with a sticky bit.
ShiftRight(hi, lo, d) ==
    IF d = 0 THEN [hi |-> hi, lo |-> lo]
    ELSE IF d < 28
    THEN [hi |-> hi \div 2^d,
          lo |-> Sticky((hi % 2^d) * 2^(28 - d) + lo \div 2^d, lo % 2^d # 0)]
    ELSE IF d < 56
    THEN [hi |-> 0,
          lo |-> Sticky(hi \div 2^(d - 28), hi % 2^(d - 28) # 0 \/ lo # 0)]
    ELSE [hi |-> 0, lo |-> 1]

\* a + b for |a| >= |b| > 0, s being b's significand at a's exponent.
SumShifted(a, b, s) ==
    IF a.sign = b.sign
    THEN Fl(a.sign, a.hi + s.hi + (a.lo + s.lo) \div Limb, (a.lo + s.lo) % Limb, a.exp)
    ELSE IF a.lo >= s.lo
    THEN Fl(a.sign, a.hi - s.hi, a.lo - s.lo, a.exp)
    ELSE Fl(a.sign, a.hi - s.hi - 1, a.lo - s.lo + Limb, a.exp)

\* x + y
DoubleSum(x, y) ==
    IF IsZero(x) THEN y
    ELSE IF IsZero(y) THEN x
    ELSE IF MagLess(x, y)
    THEN SumShifted(y, x, ShiftRight(x.hi, x.lo, y.exp - x.exp))
    ELSE SumShifted(x, y, ShiftRight(y.hi, y.lo, x.exp - y.exp))

\* x - y
DoubleDifference(x, y) == DoubleSum(x, Neg(y))

\* The significand in four 14-bit chunks, the lowest first.
ChunksOf(x) ==
    <<x.lo % Chunk, x.lo \div Chunk, x.hi % Chunk, x.hi \div Chunk>>

\* Column k of the long multiplication of a by b.
ColumnTerm(a, b, i, k) ==
    IF k + 1 - i \in 1..4 THEN a[i] * b[k + 1 - i] ELSE 0

Column(a, b, k) ==
    ColumnTerm(a, b, 1, k) + ColumnTerm(a, b, 2, k)
        + ColumnTerm(a, b, 3, k) + ColumnTerm(a, b, 4, k)

\* The product sum of c[k] * 2^(14 * (k - 1)) in 28-bit limbs, each with the
\* carry out of the limb below still on top of it.
Limb0(c) == c[1] + (c[2] % Chunk) * Chunk

Limb1(c) == Limb0(c) \div Limb + c[2] \div Chunk + c[3] + (c[4] % Chunk) * Chunk

Limb2(c) == Limb1(c) \div Limb + c[4] \div Chunk + c[5] + (c[6] % Chunk) * Chunk

Limb3(c) == Limb2(c) \div Limb + c[6] \div Chunk + c[7]

\* The double of the 112-bit product with the columns c, times 2^exp.
FlProduct(sign, c, exp) ==
    Fl(sign, Limb3(c),
       Sticky(Limb2(c) % Limb, Limb1(c) % Limb # 0 \/ Limb0(c) % Limb # 0),
       exp + 56)

\* The columns of the long multiplication of the chunks a by the chunks b.
Columns(a, b) == [k \in 1..7 |-> Column(a, b, k)]

\* x * y
DoubleProduct(x, y) ==
    IF IsZero(x) \/ IsZero(y) THEN Zero
    ELSE FlProduct(x.sign * y.sign, Columns(ChunksOf(x), ChunksOf(y)), x.exp + y.exp)

\* Math.pow(x, 2): the rounded square.
MathPow2(x) == DoubleProduct(x, x)

\* Long division: the next bit of the quotient by the divisor b, q being the
\* bits so far and (rh, rl) the remainder, doubled.
NextBit(q, rh, rl, b) ==
    IF rh < b.hi \/ (rh = b.hi /\ rl < b.lo)
    THEN [q |-> 2 * q, hi |-> rh, lo |-> rl]
    ELSE IF rl >= b.lo
    THEN [q |-> 2 * q + 1, hi |-> rh - b.hi, lo |-> rl - b.lo]
    ELSE [q |-> 2 * q + 1, hi |-> rh - b.hi - 1, lo |-> rl - b.lo + Limb]

QuotientBit(r, b) ==
    NextBit(r.q, 2 * r.hi + (2 * r.lo) \div Limb, (2 * r.lo) % Limb, b)

\* count more bits: the first half of them and then the rest, which are all
\* 0 once the remainder is 0.
RECURSIVE QuotientBits(_, _, _)
RECURSIVE QuotientRest(_, _, _)
QuotientBits(r, b, count) ==
    IF count = 1 THEN QuotientBit(r, b)
    ELSE QuotientRest(QuotientBits(r, b, count \div 2), b, count - count \div 2)

QuotientRest(r, b, count) ==
    IF r.hi = 0 /\ r.lo = 0 THEN [r EXCEPT !.q = @ * 2^count]
    ELSE QuotientBits(r, b, count)

\* The double of the quotient whose upper 29 bits are top.q and whose lower
\* 28 bits are low.q, low's remainder deciding the sticky bit.
FlQuotientLow(sign, top, low, exp) ==
    IF low.hi = 0 /\ low.lo = 0 THEN Fl(sign, top.q, low.q, exp)
    ELSE Fl(sign, top.q, Sticky(low.q, TRUE), exp)

FlQuotient(sign, top, b, exp) ==
    IF top.hi = 0 /\ top.lo = 0 THEN Fl(sign, top.q, 0, exp)
    ELSE FlQuotientLow(sign, top,
                       QuotientBits([q |-> 0, hi |-> top.hi, lo |-> top.lo], b, 28),
                       exp)

\* x / y for y # 0: 57 bits of the quotient of the significands.
DoubleQuotient(x, y) ==
    IF IsZero(x) THEN Zero
    ELSE FlQuotient(x.sign * y.sign,
                    QuotientBits([q |-> 0, hi |-> x.hi \div 2,
                                  lo |-> (x.hi % 2) * HalfLimb + x.lo \div 2],
                                 y, 29),
                    y, x.exp - y.exp - 56)

\* ------------------------------------------------------------ analyzeData

IsNaN(d) == d = NaN

\* CountDigits stopping one element early (a loop to digits.length - 1).
RECURSIVE CountDigitsShort(_, _, _)
CountDigitsShort(digits, i, digitFrequency) ==
    IF i > Len(digits) - 1 THEN digitFrequency
    ELSE CountDigitsShort(digits, i + 1,
            IF IsNaN(digits[i]) THEN digitFrequency
            ELSE [digitFrequency EXCEPT ![digits[i]] = @ + 1])

\* digits.forEach(digit => { digitFrequency[digit]++; }) from position i on.
\* digitFrequency[NaN]++ sets a property that is none of the ten counters.
RECURSIVE CountDigits(_, _, _)
CountDigits(digits, i, digitFrequency) ==
    IF i > Len(digits) THEN digitFrequency
    ELSE CountDigits(digits, i + 1,
            IF IsNaN(digits[i]) THEN digitFrequency
            ELSE [digitFrequency EXCEPT ![digits[i]] = @ + 1])

\* digits[i] === (digits[i-1] + digits[i-2]) % 10, false when a NaN is involved.
IsMatch(digits, i) ==
    /\ ~IsNaN(digits[i]) /\ ~IsNaN(digits[i - 1]) /\ ~IsNaN(digits[i - 2])
    /\ digits[i] = (digits[i - 1] + digits[i - 2]) % 10

\* The loop `for (let i = 2; i < digits.length; i++)`, i one-based here.
RECURSIVE CountMatches(_, _, _)
CountMatches(digits, i, matches) ==
    IF i > Len(digits) THEN matches
    ELSE CountMatches(digits, i + 1,
            IF IsMatch(digits, i) THEN matches + 1 ELSE matches)

\* digits[i+1] / digits[i]
Ratio(digit2, digit1) ==
    IF IsNaN(digit1) \/ IsNaN(digit2) THEN NaNFraction ELSE Div(digit2, digit1)

\* CollectRatios without its `digits[i] !== 0` test: every pair is pushed.
RECURSIVE CollectRatiosUnguarded(_, _, _)
CollectRatiosUnguarded(digits, i, consecutiveRatios) ==
    IF i > Len(digits) - 1 THEN consecutiveRatios
    ELSE CollectRatiosUnguarded(digits, i + 1,
            Append(consecutiveRatios,
                    [index |-> i - 1,
                     ratio |-> Ratio(digits[i + 1], digits[i]),
                     digit1 |-> digits[i],
                     digit2 |-> digits[i + 1]]))

\* The loop `for (let i = 0; i < digits.length - 1; i++)`, i one-based here;
\* the pushed index is the source's zero-based one.
RECURSIVE CollectRatios(_, _, _)
CollectRatios(digits, i, consecutiveRatios) ==
    IF i > Len(digits) - 1 THEN consecutiveRatios
    ELSE CollectRatios(digits, i + 1,
            IF digits[i] # 0
            THEN Append(consecutiveRatios,
                    [index |-> i - 1,
                     ratio |-> Ratio(digits[i + 1], digits[i]),
                     digit1 |-> digits[i],
                     digit2 |-> digits[i + 1]])
            ELSE consecutiveRatios)

\* Math.pow(digitFrequency[i] - idealDistribution[i], 2) / idealDistribution[i]
ChiSquareTerm(frequency, idealDistribution) ==
    DoubleQuotient(MathPow2(DoubleDifference(FromInt(frequency), idealDistribution)),
                   idealDistribution)

\* The loop `chiSquare += ...` from bucket i on, chiSquare being the sum so
\* far (0 + y is y).
RECURSIVE ChiSquare(_, _, _, _)
ChiSquare(digitFrequency, idealDistribution, i, chiSquare) ==
    IF i > 9 THEN chiSquare
    ELSE IF IsZero(chiSquare)
    THEN ChiSquare(digitFrequency, idealDistribution, i + 1,
                   ChiSquareTerm(digitFrequency[i], idealDistribution))
    ELSE ChiSquare(digitFrequency, idealDistribution, i + 1,
                   DoubleSum(chiSquare,
                             ChiSquareTerm(digitFrequency[i], idealDistribution)))

\* 1 - (chiSquare / maxChiSquare); the quotient of 0 is 0.
CorrelationOf(chiSquare, maxChiSquare) ==
    IF IsZero(chiSquare) THEN FromInt(1)
    ELSE DoubleDifference(FromInt(1), DoubleQuotient(chiSquare, maxChiSquare))

\* const goldenRatioCorrelation = 1 - (chiSquare / maxChiSquare), for the
\* table digitFrequency of totalDigits digits.
goldenRatioCorrelation(digitFrequency, totalDigits) ==
    CorrelationOf(ChiSquare(digitFrequency,
                            DoubleQuotient(FromInt(totalDigits), FromInt(10)),
                            0, Zero),
                  FromInt(totalDigits * 9))

\* The frequency tables of at most n digits: a digit adds one to its counter,
\* NaN adds to none.
RECURSIVE FrequencyTables(_)
FrequencyTables(n) ==
    IF n = 0 THEN {[i \in 0..9 |-> 0]}
    ELSE FrequencyTables(n - 1)
         \cup {[f EXCEPT ![d] = @ + 1] : f \in FrequencyTables(n - 1), d \in 0..9}

\* The longest digit series of the specifications below.
MaxTotal == IF MaxDigits > MaxHistory THEN MaxDigits ELSE MaxHistory

\* The scores of all series up to that length, computed once.
CorrelationTable ==
    [totalDigits \in 1..MaxTotal |->
        [digitFrequency \in FrequencyTables(totalDigits) |->
            goldenRatioCorrelation(digitFrequency, totalDigits)]]

Correlation(digitFrequency, totalDigits) ==
    IF totalDigits <= MaxTotal THEN CorrelationTable[totalDigits][digitFrequency]
    ELSE goldenRatioCorrelation(digitFrequency, totalDigits)

\* useState's initial analysisResults.
InitialResults ==
    [digitFrequency |-> [i \in 0..9 |-> 0],
     patternMatchRatio |-> Div(0, 1),
     goldenRatioCorrelation |-> Zero,
     consecutiveRatios |-> <<>>]

\* The pattern-match ratio: matches / (digits.length - 2).
PatternMatchRatio(digits) ==
    Div(CountMatches(digits, 3, 0), Len(digits) - 2)

\* The results analyzeData sets for non-empty digits, digitFrequency being
\* the table its first loop has filled.
ResultsOf(digits, digitFrequency) ==
    [digitFrequency |-> digitFrequency,
     patternMatchRatio |-> PatternMatchRatio(digits),
     goldenRatioCorrelation |-> Correlation(digitFrequency, Len(digits)),
     consecutiveRatios |-> CollectRatios(digits, 1, <<>>)]

\* analyzeData(digits): the analysisResults after the call, `results` before.
analyzeData(digits, results) ==
    IF Len(digits) = 0 THEN results
    ELSE ResultsOf(digits, CountDigits(digits, 1, [i \in 0..9 |-> 0]))

\* ------------------------------------------------------------------ state

VARIABLES
    readyState,       \* socket -> "NONE" (not constructed), "CONNECTING", "OPEN", "CLOSING", "CLOSED"
    effectSocket,     \* newSocket of the mounted effect, NoSocket when none is mounted
    cleaned,          \* the sockets whose effect cleanup has run
    intervals,        \* the scheduled setInterval timers: [id, kind, socket]
    window,           \* window.pingIntervalId and window.dataIntervalId (0: undefined)
    connected,        \* useState connected
    loading,          \* useState loading
    error,            \* useState error
    lastDigits,       \* useState lastDigits
    analysisResults,  \* useState analysisResults
    ev                \* the handler that ran last and what it did

vars == <<readyState, effectSocket, cleaned, intervals, window, connected,
          loading, error, lastDigits, analysisResults, ev>>

Sockets == 1..MaxSockets

NoSocket == 0

NoError == "null"

\* ----------------------------------------------------------------- frames
\* An inbound frame, by shape.  pip_size is optional: present or not, and a
\* number when present.

NoPip == [present |-> FALSE, value |-> 0]

Pip(s) == [present |-> TRUE, value |-> s]

Frame(kind, prices, pip_size) == [kind |-> kind, prices |-> prices, pip_size |-> pip_size]

NoFrame == Frame("none", <<>>, NoPip)

\* Prices of the feed: 1.2345, 1.234 and 0.
Prices == {Num(12345, 0 - 4), Num(1234, 0 - 3), Num(0, 0)}

\* The pip sizes a reply may carry: the ordinary ones, and one past the
\* range of Math.pow(10, .).
PipSizes == (0..MaxPipSize) \cup {MaxExp10 + 1}

PipFields == {NoPip} \cup {Pip(s) : s \in PipSizes}

PriceLists(n) == UNION {[1..k -> Prices] : k \in 0..n}

\* Frames that are no history reply with prices:
\*   malformed      event.data is no JSON text
\*   null           the JSON text `null`
\*   error          { error: { code, message } }
\*   error_nomsg    { error: { code } }
\*   pong           { pong: 1 }
\*   history_empty  { msg_type: 'history' } with no history object
\*   other          any other object, e.g. { msg_type: 'tick' }
PlainFrames ==
    {Frame(k, <<>>, NoPip) :
        k \in {"malformed", "null", "error", "error_nomsg", "pong", "history_empty", "other"}}

\* { msg_type: 'history', history: { prices }, pip_size? }
HistoryFrames(n) ==
    {Frame("history", p, s) : p \in PriceLists(n), s \in PipFields}

\* ----------------------------------------------------------------- timers

\* setInterval's handle: a positive integer no scheduled timer and no stored
\* handle has.
FreshId(ivs, win) ==
    CHOOSE n \in 1..(Cardinality(ivs) + 3) :
        /\ \A t \in ivs : t.id # n
        /\ n # win.pingIntervalId /\ n # win.dataIntervalId
        /\ \A m \in 1..(n - 1) :
              \/ \E t \in ivs : t.id = m
              \/ m = win.pingIntervalId \/ m = win.dataIntervalId

\* `if (id) clearInterval(id)`
clearInterval(ivs, id) == {t \in ivs : t.id # id}

PingFrame(socket) == [socket |-> socket, kind |-> "ping"]

HistoryRequest(socket) == [socket |-> socket, kind |-> "ticks_history"]

\* ---------------------------------------------------------- the client

\* startPingInterval without its clearInterval: the new interval is stacked
\* on the old one.
startPingIntervalStacking(socket, ivs, win) ==
    LET id == FreshId(ivs, win)
    IN  [intervals |-> ivs \cup {[id |-> id, kind |-> "ping", socket |-> socket]},
         window |-> [win EXCEPT !.pingIntervalId = id]]

\* startPingInterval(socket): clears the interval window.pingIntervalId names
\* and schedules a new one bound to socket.  Yields the timers and window after.
startPingInterval(socket, ivs, win) ==
    LET cleared == IF win.pingIntervalId # 0
                   THEN clearInterval(ivs, win.pingIntervalId)
                   ELSE ivs
        id == FreshId(cleared, [win EXCEPT !.pingIntervalId = 0])
    IN  [intervals |-> cleared \cup {[id |-> id, kind |-> "ping", socket |-> socket]},
         window |-> [win EXCEPT !.pingIntervalId = id]]

\* requestTickHistory testing only `!socket`: it sends on a socket that is
\* not open.
requestTickHistoryUnchecked(socket, rs) ==
    IF socket = NoSocket
    THEN [threw |-> TRUE, sent |-> <<>>]
    ELSE [threw |-> FALSE, sent |-> <<HistoryRequest(socket)>>]

\* requestTickHistory(socket): throws unless the socket is there and open,
\* else sends one history request.
requestTickHistory(socket, rs) ==
    IF (IF socket = NoSocket THEN TRUE ELSE rs[socket] # "OPEN")
    THEN [threw |-> TRUE, sent |-> <<>>]
    ELSE [threw |-> FALSE, sent |-> <<HistoryRequest(socket)>>]

\* closeSocket(socket): close() an open socket, which makes it CLOSING, and
\* clear the interval window.pingIntervalId names.
closeSocket(socket, rs, ivs, win) ==
    [readyState |-> IF socket # NoSocket /\ rs[socket] = "OPEN"
                    THEN [rs EXCEPT ![socket] = "CLOSING"]
                    ELSE rs,
     intervals |-> IF win.pingIntervalId # 0
                   THEN clearInterval(ivs, win.pingIntervalId)
                   ELSE ivs]

\* ------------------------------------------------------- the message path

\* `data.pip_size || 4`: the field when it is there and truthy, else 4.
PipSizeOf(pip_size) ==
    IF pip_size.present /\ pip_size.value # 0 THEN pip_size.value ELSE DefaultPipSize

\* prices.map(price => extractLastDigit(price, pipSize))
DigitsOf(prices, pipSize) ==
    [i \in 1..Len(prices) |-> extractLastDigit(prices[i], pipSize)]

\* The component state a message handler reads and writes, and what one call
\* did: reports counts its setError calls, threw tells an exception left it.
Ui(err, load, digits, results, reports, threw) ==
    [error |-> err, loading |-> load, lastDigits |-> digits,
     analysisResults |-> results, reports |-> reports, threw |-> threw]

\* The error branch with the series and the results reset as well.
ErrorUiResetting(message, ui) ==
    Ui(message, FALSE, <<>>, InitialResults, 1, FALSE)

\* handleMessage's `if (data.error)` branch: setError(message),
\* setLoading(false), return.
ErrorUi(message, ui) ==
    Ui(message, FALSE, ui.lastDigits, ui.analysisResults, 1, FALSE)

\* The end of handleMessage's history branch: setLastDigits(digits),
\* analyzeData(digits), setLoading(false).
HistoryUi(digits, ui) ==
    Ui(ui.error, FALSE, digits, analyzeData(digits, ui.analysisResults), 0, FALSE)

\* handleMessage(data) on the component state ui.
handleMessage(data, ui) ==
    CASE data.kind = "null" ->
            \* data.error of null throws inside the try; the catch reports it
            Ui("Failed to process data from API", FALSE, ui.lastDigits,
               ui.analysisResults, 1, FALSE)
      [] data.kind = "error" ->
            ErrorUi("API Error: message", ui)
      [] data.kind = "error_nomsg" ->
            ErrorUi("API Error: Unknown error", ui)
      [] data.kind = "pong" ->
            Ui(ui.error, ui.loading, ui.lastDigits, ui.analysisResults, 0, FALSE)
      [] data.kind = "history_empty" ->
            Ui("No price data received from API", FALSE, ui.lastDigits,
               ui.analysisResults, 1, FALSE)
      [] data.kind = "history" ->
            IF Len(data.prices) = 0
            THEN Ui("No price data received from API", FALSE, ui.lastDigits,
                    ui.analysisResults, 1, FALSE)
            ELSE HistoryUi(DigitsOf(data.prices, PipSizeOf(data.pip_size)), ui)
      [] OTHER ->
            Ui(ui.error, ui.loading, ui.lastDigits, ui.analysisResults, 0, FALSE)

\* socket.onmessage(event): JSON.parse(event.data), outside any try, then
\* onMessage(data).
onmessage(frame, ui) ==
    IF frame.kind = "malformed"
    THEN Ui(ui.error, ui.loading, ui.lastDigits, ui.analysisResults, 0, TRUE)
    ELSE handleMessage(frame, ui)

\* ----------------------------------------------------------------- events

Event(op, socket, frame, sent, threw, reports) ==
    [op |-> op, socket |-> socket, frame |-> frame, sent |-> sent,
     threw |-> threw, reports |-> reports]

Init ==
    /\ readyState = [s \in Sockets |-> "NONE"]
    /\ effectSocket = NoSocket
    /\ cleaned = {}
    /\ intervals = {}
    /\ window = [pingIntervalId |-> 0, dataIntervalId |-> 0]
    /\ connected = FALSE
    /\ loading = TRUE
    /\ error = NoError
    /\ lastDigits = <<>>
    /\ analysisResults = InitialResults
    /\ ev = Event("init", NoSocket, NoFrame, <<>>, FALSE, 0)

\* The effect runs: createDerivSocket and setupSocketHandlers on a new socket.
Mount(s) ==
    /\ effectSocket = NoSocket
    /\ readyState[s] = "NONE"
    /\ \A r \in Sockets : r < s => readyState[r] # "NONE"
    /\ readyState' = [readyState EXCEPT ![s] = "CONNECTING"]
    /\ effectSocket' = s
    /\ ev' = Event("mount", s, NoFrame, <<>>, FALSE, 0)
    /\ UNCHANGED <<cleaned, intervals, window, connected, loading, error,
                   lastDigits, analysisResults>>

\* The effect's cleanup: clear window.dataIntervalId, then closeSocket(newSocket).
Cleanup ==
    /\ effectSocket # NoSocket
    /\ LET ivs == IF window.dataIntervalId # 0
                  THEN clearInterval(intervals, window.dataIntervalId)
                  ELSE intervals
           c == closeSocket(effectSocket, readyState, ivs, window)
       IN  /\ readyState' = c.readyState
           /\ intervals' = c.intervals
    /\ cleaned' = cleaned \cup {effectSocket}
    /\ effectSocket' = NoSocket
    /\ ev' = Event("cleanup", effectSocket, NoFrame, <<>>, FALSE, 0)
    /\ UNCHANGED <<window, connected, loading, error, lastDigits,
                   analysisResults>>

\* socket.onopen: onOpen (setConnected, the first request, the refresh
\* interval stored in window.dataIntervalId), then startPingInterval(socket).
SocketOpen(s) ==
    /\ readyState[s] = "CONNECTING"
    /\ readyState' = [readyState EXCEPT ![s] = "OPEN"]
    /\ connected' = TRUE
    /\ LET req == requestTickHistory(s, readyState')
           dataId == FreshId(intervals, window)
           ivs == IF req.threw THEN intervals
                  ELSE intervals \cup {[id |-> dataId, kind |-> "data", socket |-> s]}
           win == IF req.threw THEN window
                  ELSE [window EXCEPT !.dataIntervalId = dataId]
           p == startPingInterval(s, ivs, win)
       IN  /\ intervals' = p.intervals
           /\ window' = p.window
           /\ error' = IF req.threw THEN "Failed to request data" ELSE error
           /\ loading' = IF req.threw THEN FALSE ELSE loading
           /\ ev' = Event("open", s, NoFrame, req.sent, FALSE,
                          IF req.threw THEN 1 ELSE 0)
    /\ UNCHANGED <<effectSocket, cleaned, lastDigits, analysisResults>>

\* socket.onerror: onError reports the failure.
SocketError(s) ==
    /\ readyState[s] \in {"CONNECTING", "OPEN"}
    /\ error' = "WebSocket error: Connection failed"
    /\ loading' = FALSE
    /\ ev' = Event("error", s, NoFrame, <<>>, FALSE, 1)
    /\ UNCHANGED <<readyState, effectSocket, cleaned, intervals, window,
                   connected, lastDigits, analysisResults>>

\* The socket closes (a failed connect, a drop, or the end of close()):
\* socket.onclose clears window.pingIntervalId, onClose clears
\* window.dataIntervalId.
SocketClose(s) ==
    /\ readyState[s] \in {"CONNECTING", "OPEN", "CLOSING"}
    /\ readyState' = [readyState EXCEPT ![s] = "CLOSED"]
    /\ connected' = FALSE
    /\ LET ivs == IF window.pingIntervalId # 0
                  THEN clearInterval(intervals, window.pingIntervalId)
                  ELSE intervals
       IN  intervals' = IF window.dataIntervalId # 0
                        THEN clearInterval(ivs, window.dataIntervalId)
                        ELSE ivs
    /\ ev' = Event("close", s, NoFrame, <<>>, FALSE, 0)
    /\ UNCHANGED <<effectSocket, cleaned, window, loading, error, lastDigits,
                   analysisResults>>

\* A frame arrives on an open socket: socket.onmessage.
Message(s, frame) ==
    /\ readyState[s] = "OPEN"
    /\ \E ui \in {onmessage(frame, Ui(error, loading, lastDigits, analysisResults, 0, FALSE))} :
           /\ error' = ui.error
           /\ loading' = ui.loading
           /\ lastDigits' = ui.lastDigits
           /\ analysisResults' = ui.analysisResults
           /\ ev' = Event("message", s, frame, <<>>, ui.threw, ui.reports)
    /\ UNCHANGED <<readyState, effectSocket, cleaned, intervals, window,
                   connected>>

\* The keepalive interval fires: a ping when its socket is open.
PingTick(t) ==
    /\ t \in intervals /\ t.kind = "ping"
    /\ ev' = Event("pingTick", t.socket, NoFrame,
                   IF readyState[t.socket] = "OPEN" THEN <<PingFrame(t.socket)>> ELSE <<>>,
                   FALSE, 0)
    /\ UNCHANGED <<readyState, effectSocket, cleaned, intervals, window, connected,
                   loading, error, lastDigits, analysisResults>>

\* The refresh interval fires: requestTickHistory when its socket is open,
\* its exception caught.
DataTick(t) ==
    /\ t \in intervals /\ t.kind = "data"
    /\ ev' = Event("dataTick", t.socket, NoFrame,
                   IF readyState[t.socket] = "OPEN"
                   THEN requestTickHistory(t.socket, readyState).sent
                   ELSE <<>>,
                   FALSE, 0)
    /\ UNCHANGED <<readyState, effectSocket, cleaned, intervals, window, connected,
                   loading, error, lastDigits, analysisResults>>

\* The frames of the lifecycle specification: every plain frame, and the
\* history replies carrying the one price 1.2345.
LifecycleFrames ==
    PlainFrames \cup {Frame("history", <<Num(12345, 0 - 4)>>, s) : s \in {NoPip, Pip(0)}}

Next ==
    \/ \E s \in Sockets : Mount(s)
    \/ Cleanup
    \/ \E s \in Sockets : SocketOpen(s)
    \/ \E s \in Sockets : SocketError(s)
    \/ \E s \in Sockets : SocketClose(s)
    \/ \E s \in Sockets, frame \in LifecycleFrames : Message(s, frame)
    \/ \E t \in intervals : PingTick(t)
    \/ \E t \in intervals : DataTick(t)

Spec == Init /\ [][Next]_vars

\* ------------------------------------------------ the exports, called directly
\* startPingInterval and requestTickHistory are exported: a caller other than
\* the component may invoke them on any socket it holds, in any state.

ApiStartPingInterval(s) ==
    /\ readyState[s] # "NONE"
    /\ LET p == startPingInterval(s, intervals, window)
       IN  /\ intervals' = p.intervals
           /\ window' = p.window
    /\ ev' = Event("startPingInterval", s, NoFrame, <<>>, FALSE, 0)
    /\ UNCHANGED <<readyState, effectSocket, cleaned, connected, loading, error,
                   lastDigits, analysisResults>>

\* requestTickHistory(socket) with socket null (NoSocket) or a constructed one.
ApiRequestTickHistory(s) ==
    /\ IF s = NoSocket THEN TRUE ELSE readyState[s] # "NONE"
    /\ LET req == requestTickHistory(s, readyState)
       IN  ev' = Event("requestTickHistory", s, NoFrame, req.sent, req.threw, 0)
    /\ UNCHANGED <<readyState, effectSocket, cleaned, intervals, window, connected,
                   loading, error, lastDigits, analysisResults>>

NextApi ==
    \/ \E s \in Sockets : Mount(s)
    \/ Cleanup
    \/ \E s \in Sockets : SocketOpen(s)
    \/ \E s \in Sockets : SocketClose(s)
    \/ \E t \in intervals : PingTick(t)
    \/ \E t \in intervals : DataTick(t)
    \/ \E s \in Sockets : ApiStartPingInterval(s)
    \/ \E s \in Sockets \cup {NoSocket} : ApiRequestTickHistory(s)

SpecApi == Init /\ [][NextApi]_vars

\* --------------------------------------------------- history replies alone
\* The session right after Mount(1) and SocketOpen(1), then history replies
\* of every shape.

InitHistory ==
    /\ readyState = [s \in Sockets |-> IF s = 1 THEN "OPEN" ELSE "NONE"]
    /\ effectSocket = 1
    /\ cleaned = {}
    /\ intervals = {[id |-> 1, kind |-> "data", socket |-> 1],
                    [id |-> 2, kind |-> "ping", socket |-> 1]}
    /\ window = [pingIntervalId |-> 2, dataIntervalId |-> 1]
    /\ connected = TRUE
    /\ loading = TRUE
    /\ error = NoError
    /\ lastDigits = <<>>
    /\ analysisResults = InitialResults
    /\ ev = Event("open", 1, NoFrame, <<HistoryRequest(1)>>, FALSE, 0)

HistoryReply(frame) == Message(1, frame)

NextHistory == \E frame \in HistoryFrames(MaxHistory) : HistoryReply(frame)

SpecHistory == InitHistory /\ [][NextHistory]_vars

\* ------------------------------------------------------- analyzeData alone
\* analyzeData applied to every digit sequence up to MaxDigits long.

DigitLists(n) == UNION {[1..k -> 0..9] : k \in 0..n}

InitAnalyze ==
    /\ readyState = [s \in Sockets |-> "NONE"]
    /\ effectSocket = NoSocket
    /\ cleaned = {}
    /\ intervals = {}
    /\ window = [pingIntervalId |-> 0, dataIntervalId |-> 0]
    /\ connected = FALSE
    /\ loading = TRUE
    /\ error = NoError
    /\ lastDigits \in DigitLists(MaxDigits)
    /\ analysisResults = InitialResults
    /\ ev = Event("digits", NoSocket, NoFrame, <<>>, FALSE, 0)

\* analyzeData(digits) on the digits at hand.
Analyze ==
    /\ ev.op = "digits"
    /\ analysisResults' = analyzeData(lastDigits, analysisResults)
    /\ ev' = Event("analyzeData", NoSocket, NoFrame, <<>>, FALSE, 0)
    /\ UNCHANGED <<readyState, effectSocket, cleaned, intervals, window, connected,
                   loading, error, lastDigits>>

NextAnalyze == Analyze

SpecAnalyze == InitAnalyze /\ [][NextAnalyze]_vars

\* ----------------------------------------------------------------- claims

FramesOn(s) == {i \in 1..Len(ev.sent) : ev.sent[i].socket = s}

IntervalsOf(s) == {t \in intervals : t.socket = s}

PingIntervals == {t \in intervals : t.kind = "ping"}

\* C1: once the effect's cleanup (with its closeSocket) has run for a socket,
\* whatever state the socket was in, no interval bound to that socket is
\* scheduled and no handler sends a ping or a history request on it.
CleanupHaltsBothTimers ==
    \A s \in cleaned : IntervalsOf(s) = {} /\ FramesOn(s) = {}

\* C2: however often startPingInterval has run, at most one keepalive
\* interval is scheduled; right after a call it is exactly the one the call
\* made, bound to the call's socket and named by window.pingIntervalId; and
\* one firing of it sends at most one ping, one exactly when the socket is open.
OnePingInterval ==
    /\ Cardinality(PingIntervals) <= 1
    /\ ev.op \in {"startPingInterval", "open"} =>
          PingIntervals =
              {[id |-> window.pingIntervalId, kind |-> "ping", socket |-> ev.socket]}
    /\ ev.op = "pingTick" =>
          ev.sent = IF readyState[ev.socket] = "OPEN"
                    THEN <<PingFrame(ev.socket)>>
                    ELSE <<>>

\* C2 witness: startPingInterval was called directly on an open socket, on
\* which onopen had called it before, and one keepalive interval is scheduled.
PingRestartedOnOpenSocket ==
    /\ ev.op = "startPingInterval"
    /\ readyState[ev.socket] = "OPEN"
    /\ Cardinality(PingIntervals) = 1

\* C3: requestTickHistory throws and sends nothing when the socket is missing
\* or not open, and sends exactly one history request when it is open.
RequestNeedsOpenSocket ==
    ev.op = "requestTickHistory" =>
        IF (IF ev.socket = NoSocket THEN TRUE ELSE readyState[ev.socket] # "OPEN")
        THEN ev.threw /\ ev.sent = <<>>
        ELSE ~ev.threw /\ ev.sent = <<HistoryRequest(ev.socket)>>

\* C3 witness: requestTickHistory was refused on a socket that is closing.
RequestRefusedWhileClosing ==
    /\ ev.op = "requestTickHistory"
    /\ ev.socket # NoSocket
    /\ readyState[ev.socket] = "CLOSING"
    /\ ev.threw

\* C4: handling a frame with an error field reports the error once, throws
\* nothing, leaves the socket open and both timers scheduled, and leaves the
\* digit series and the analysis results as they were.
ErrorFrameLeavesSessionAlone ==
    [][(ev'.op = "message" /\ ev'.frame.kind \in {"error", "error_nomsg"}) =>
          /\ ev'.reports = 1
          /\ ~ev'.threw
          /\ error' # NoError
          /\ readyState' = readyState
          /\ readyState'[ev'.socket] = "OPEN"
          /\ intervals' = intervals
          /\ window' = window
          /\ lastDigits' = lastDigits
          /\ analysisResults' = analysisResults]_vars

\* C4 witness: an error frame was handled on an open socket that has both its
\* timers scheduled, after a digit series had been received.
ErrorFrameHandled ==
    /\ ev.op = "message"
    /\ ev.frame.kind = "error"
    /\ ev.reports = 1
    /\ readyState[ev.socket] = "OPEN"
    /\ \E t \in IntervalsOf(ev.socket) : t.kind = "ping"
    /\ \E t \in IntervalsOf(ev.socket) : t.kind = "data"
    /\ lastDigits # <<>>

\* C5: a frame that is no JSON is reported through the error callback and
\* not thrown out of socket.onmessage.
MalformedFrameIsReported ==
    (ev.op = "message" /\ ev.frame.kind = "malformed") =>
        ~ev.threw /\ ev.reports >= 1

RECURSIVE SumTo(_, _)
SumTo(f, i) == IF i < 0 THEN 0 ELSE f[i] + SumTo(f, i - 1)

Analyzed == ev.op = "analyzeData" /\ Len(lastDigits) > 0

\* C6: for a non-empty sequence of digits 0..9 the frequency table has the
\* ten counters 0..9, counter i holds the number of positions with digit i,
\* and the counters sum to the length of the sequence.
FrequencySumsToLength ==
    Analyzed =>
        /\ DOMAIN analysisResults.digitFrequency = 0..9
        /\ \A d \in 0..9 :
              analysisResults.digitFrequency[d] =
                  Cardinality({i \in 1..Len(lastDigits) : lastDigits[i] = d})
        /\ SumTo(analysisResults.digitFrequency, 9) = Len(lastDigits)

\* C6 witness: a sequence of full length with a repeated digit was analyzed.
RepeatedDigitCounted ==
    /\ Analyzed
    /\ Len(lastDigits) = MaxDigits
    /\ \E d \in 0..9 : analysisResults.digitFrequency[d] >= 2

Matches(digits) ==
    Cardinality({i \in 3..Len(digits) :
                    digits[i] = (digits[i - 1] + digits[i - 2]) % 10})

\* C7: for a non-empty sequence the pattern-match ratio lies in [0,1]; it is
\* matches / (length - 2) when the length exceeds 2, and 0 when it is 1 or 2.
PatternRatioIsDefined ==
    Analyzed =>
        LET r == analysisResults.patternMatchRatio
        IN  /\ r.den > 0 /\ 0 <= r.num /\ r.num <= r.den
            /\ Len(lastDigits) > 2 =>
                  r.num * (Len(lastDigits) - 2) = Matches(lastDigits) * r.den
            /\ Len(lastDigits) <= 2 => r.num = 0

NonzeroFirst(digits) == {i \in 0..(Len(digits) - 2) : digits[i + 1] # 0}

\* C8: the consecutive-ratio series holds, in increasing index order, one
\* entry for each adjacent pair whose first digit is not 0, with that pair's
\* digits and their quotient, and none for a pair whose first digit is 0;
\* [0,5,3] yields the one entry of index 1.
RatiosSkipZeroFirst ==
    Analyzed =>
        LET rs == analysisResults.consecutiveRatios
        IN  /\ Len(rs) = Cardinality(NonzeroFirst(lastDigits))
            /\ \A k \in 1..Len(rs) :
                  /\ rs[k].index \in NonzeroFirst(lastDigits)
                  /\ rs[k].digit1 = lastDigits[rs[k].index + 1]
                  /\ rs[k].digit2 = lastDigits[rs[k].index + 2]
                  /\ rs[k].ratio.den > 0
                  /\ rs[k].ratio.num * rs[k].digit1 = rs[k].digit2 * rs[k].ratio.den
                  /\ k > 1 => rs[k - 1].index < rs[k].index
            /\ lastDigits = <<0, 5, 3>> =>
                  Len(rs) = 1 /\ rs[1].index = 1

\* C8 witness: [0,5,3] was analyzed and gave the one entry 5 -> 3 at index 1.
ZeroFiveThreeAnalyzed ==
    /\ Analyzed
    /\ lastDigits = <<0, 5, 3>>
    /\ Len(analysisResults.consecutiveRatios) = 1
    /\ analysisResults.consecutiveRatios[1].index = 1
    /\ analysisResults.consecutiveRatios[1].ratio = [num |-> 3, den |-> 5]

\* A history reply with prices was the last thing handled.
HistoryHandled ==
    ev.op = "message" /\ ev.frame.kind = "history" /\ Len(ev.frame.prices) > 0

\* The s-th decimal digit of the decimal p.
DecimalDigit(p, s) ==
    IF p.e + s >= 1 THEN 0 ELSE (p.m \div Pow10(0 - (p.e + s))) % 10

\* Whether p * 10^s is a finite double.
ScalesFinitely(p, s) == s <= MaxExp10 /\ ~Overflows(p.m, p.e + s)

PipSizeFieldIsUsed ==
    HistoryHandled =>
        lastDigits =
            DigitsOf(ev.frame.prices,
                     IF ev.frame.pip_size.present
                     THEN ev.frame.pip_size.value
                     ELSE DefaultPipSize)

\* C11: with two sockets alive, the open, close or cleanup of one socket
\* removes no interval of another socket that is open, and leaves no
\* interval of a closed or cleaned-up socket scheduled without a window
\* handle naming it.
SessionsKeepTheirTimers ==
    [][(/\ ev'.op \in {"open", "close", "cleanup"}
        /\ \E r \in Sockets \ {ev'.socket} :
               readyState[r] \in {"CONNECTING", "OPEN", "CLOSING"})
       => /\ \A t \in intervals :
                (t.socket # ev'.socket /\ readyState[t.socket] = "OPEN")
                    => t \in intervals'
          /\ \A t \in intervals' :
                (readyState'[t.socket] = "CLOSED" \/ t.socket \in cleaned')
                    => t.id \in {window'.pingIntervalId, window'.dataIntervalId}
      ]_vars

\* C12: for a non-empty sequence of digits 0..9 the score
\* 1 - chiSquare / (total * 9) is at least 0 and at most 1, it is 1 exactly
\* when the ten counters are equal, and 0 exactly when all digits of the
\* sequence are the same.
ScoreIsInUnitInterval ==
    Analyzed =>
        /\ ~Less(analysisResults.goldenRatioCorrelation, Zero)
        /\ ~Less(FromInt(1), analysisResults.goldenRatioCorrelation)
        /\ analysisResults.goldenRatioCorrelation = FromInt(1)
               <=> \A d \in 0..9 : analysisResults.digitFrequency[d]
                                      = analysisResults.digitFrequency[0]
        /\ analysisResults.goldenRatioCorrelation = Zero
               <=> \A i \in 1..Len(lastDigits) : lastDigits[i] = lastDigits[1]

====
